---- MODULE Spec2Model ----
(***************************************************************************)
(* A model of ass_font_replacer.py: the line rewriting of Worker.run, the  *)
(* batch loop with its signals, load_fonts_config, and the control path of *)
(* App (directory selection, configuration editing, startProcessing).      *)
(* Text is a sequence of one-character strings.                            *)
(***************************************************************************)
EXTENDS Integers, Sequences, FiniteSets, TLC

(***************************************************************************)
(* Text helpers (Python str semantics)                                     *)
(***************************************************************************)

\* s[i..] starts with pat
StartsAt(s, i, pat) ==
    /\ i >= 1
    /\ i + Len(pat) - 1 <= Len(s)
    /\ \A j \in 1..Len(pat) : s[i + j - 1] = pat[j]

\* Python: pat in s
Contains(s, pat) == \E i \in 1..(Len(s) + 1) : StartsAt(s, i, pat)

\* the suffix s[i..]
From(s, i) == SubSeq(s, i, Len(s))

\* the characters str.strip() removes
Whitespace == {" ", "\t", "\n", "\r", "\f"}

RECURSIVE LStrip(_)
LStrip(s) ==
    IF s # <<>> /\ Head(s) \in Whitespace THEN LStrip(Tail(s)) ELSE s

RECURSIVE RStrip(_)
RStrip(s) ==
    IF s # <<>> /\ s[Len(s)] \in Whitespace
    THEN RStrip(SubSeq(s, 1, Len(s) - 1))
    ELSE s

\* Python: s.strip()
Strip(s) == RStrip(LStrip(s))

\* index of the first occurrence of pat in s, 0 when there is none
FirstIndex(s, pat) ==
    IF Contains(s, pat)
    THEN CHOOSE i \in 1..(Len(s) + 1) :
            StartsAt(s, i, pat) /\ \A j \in 1..(i - 1) : ~StartsAt(s, j, pat)
    ELSE 0

\* index of the last occurrence of pat in s, 0 when there is none
LastIndex(s, pat) ==
    IF Contains(s, pat)
    THEN CHOOSE i \in 1..(Len(s) + 1) :
            StartsAt(s, i, pat) /\ \A j \in (i + 1)..(Len(s) + 1) : ~StartsAt(s, j, pat)
    ELSE 0

\* s with the occurrence of old at index i replaced by new
SpliceAt(s, i, old, new) ==
    SubSeq(s, 1, i - 1) \o new \o From(s, i + Len(old))

\* a slip: the last occurrence is replaced
ReplaceLast(s, old, new) ==
    IF LastIndex(s, old) = 0 THEN s ELSE SpliceAt(s, LastIndex(s, old), old, new)

\* Python: s.replace(old, new, 1)
ReplaceFirst(s, old, new) ==
    IF FirstIndex(s, old) = 0 THEN s ELSE SpliceAt(s, FirstIndex(s, old), old, new)

(***************************************************************************)
(* The three patterns of Worker.run                                        *)
(***************************************************************************)

StylePrefix == <<"S", "t", "y", "l", "e", ":", " ">>
FnTag == <<"\\", "f", "n">>
FspTag == <<"\\", "f", "s", "p">>
Digits == {"0", "1", "2", "3", "4", "5", "6", "7", "8", "9"}

\* \d* from index i: the index after the digits
RECURSIVE SkipDigits(_, _)
SkipDigits(s, i) ==
    IF i <= Len(s) /\ s[i] \in Digits THEN SkipDigits(s, i + 1) ELSE i

\* an optional character c at index i: the index after it
SkipOpt(s, i, c) == IF i <= Len(s) /\ s[i] = c THEN i + 1 ELSE i

\* \\fsp-?\d*\.?\d* matched at index i (where \fsp starts): the index after the match
FspMatchEnd(s, i) ==
    SkipDigits(s, SkipOpt(s, SkipDigits(s, SkipOpt(s, i + Len(FspTag), "-")), "."))

\* fsp_pattern.sub('', s) from index i on
RECURSIVE FspSub(_, _)
FspSub(s, i) ==
    IF i > Len(s) THEN <<>>
    ELSE IF StartsAt(s, i, FspTag) THEN FspSub(s, FspMatchEnd(s, i))
    ELSE <<s[i]>> \o FspSub(s, i + 1)

\* indices of the commas that can end a lazy group (.+?) starting at index from:
\* at least one character, none of them a line feed
GroupEnds(s, from) ==
    {p \in (from + 1)..Len(s) :
        s[p] = "," /\ \A q \in from..(p - 1) : s[q] # "\n"}

Min(S) == CHOOSE x \in S : \A y \in S : x <= y

\* style_pattern.match(s): ^Style: (.+?),(.+?),   [ok, font: group(2)]
StyleMatch(s) ==
    LET g1 == Len(StylePrefix) + 1
        NoMatch == [ok |-> FALSE, font |-> <<>>]
    IN  IF ~StartsAt(s, 1, StylePrefix) \/ GroupEnds(s, g1) = {} THEN NoMatch
        ELSE LET c1 == Min(GroupEnds(s, g1))
             IN  IF GroupEnds(s, c1 + 1) = {} THEN NoMatch
                 ELSE [ok |-> TRUE,
                       font |-> SubSeq(s, c1 + 1, Min(GroupEnds(s, c1 + 1)) - 1)]

\* [^\\}]+ from index i: the index after the run
RECURSIVE SkipFontName(_, _)
SkipFontName(s, i) ==
    IF i <= Len(s) /\ s[i] \notin {"\\", "}"} THEN SkipFontName(s, i + 1) ELSE i

\* a slip: an absent key keeps its own name
GetOrKey(d, key, default) == IF key \in DOMAIN d THEN d[key] ELSE key

\* Python: d.get(key, default)
Get(d, key, default) == IF key \in DOMAIN d THEN d[key] ELSE default

\* font_tag_pattern.sub(replace_font, s) from index i on
RECURSIVE FnSub(_, _, _, _)
FnSub(s, i, font_replacements, default_font) ==
    IF i > Len(s) THEN <<>>
    ELSE LET b == i + Len(FnTag)
             e == SkipFontName(s, b)
         IN  IF StartsAt(s, i, FnTag) /\ e > b
             THEN FnTag \o Get(font_replacements, SubSeq(s, b, e - 1), default_font)
                        \o FnSub(s, e, font_replacements, default_font)
             ELSE <<s[i]>> \o FnSub(s, i + 1, font_replacements, default_font)

\* the line after the spacing step
Despaced(line, remove_spacing) ==
    IF remove_spacing /\ Contains(line, FspTag) THEN FspSub(line, 1) ELSE line

\* the style branch and the inline branch on a despaced line
RewriteFonts(l, font_replacements, default_font) ==
    IF StyleMatch(l).ok
    THEN LET font_name == Strip(StyleMatch(l).font)
         IN  ReplaceFirst(l, font_name, Get(font_replacements, font_name, default_font))
    ELSE IF Contains(l, FnTag) THEN FnSub(l, 1, font_replacements, default_font)
    ELSE l

\* a slip: the spacing step ignores the flag
RewriteLineAlwaysDespaced(line, font_replacements, default_font, remove_spacing) ==
    RewriteFonts(Despaced(line, TRUE), font_replacements, default_font)

\* the body of the loop over the lines of a file
RewriteLine(line, font_replacements, default_font, remove_spacing) ==
    RewriteFonts(Despaced(line, remove_spacing), font_replacements, default_font)

(***************************************************************************)
(* int((index + 1) / total_files * 100): Python's true division and float  *)
(* product are IEEE 754 binary64 operations rounded to nearest, ties to    *)
(* even. A float is [m, e]: m the 53 bits of its significand, first bit 1, *)
(* and e the exponent of that first bit.                                   *)
(***************************************************************************)

SignificandBits == 53

Zeros(n) == [i \in 1..n |-> 0]

Rev(s) == [i \in 1..Len(s) |-> s[Len(s) + 1 - i]]

\* the sum of two bit strings of one length, lowest bit first, with carry c
RECURSIVE AddLow(_, _, _)
AddLow(a, b, c) ==
    IF a = <<>> THEN <<c>>
    ELSE LET t == Head(a) + Head(b) + c
         IN  <<t % 2>> \o AddLow(Tail(a), Tail(b), t \div 2)

\* the sum of two bit strings of one length, highest bit first: one bit longer
AddBits(a, b) == Rev(AddLow(Rev(a), Rev(b), 0))

PadTo(a, n) == Zeros(n - Len(a)) \o a

RECURSIVE StripZeros(_)
StripZeros(a) == IF a # <<>> /\ Head(a) = 0 THEN StripZeros(Tail(a)) ELSE a

\* a bit string whose first bit is 1, of weight 2^e, rounded to 53 bits
RoundToFloat(bits, e) ==
    LET n == SignificandBits
        exact == IF Len(bits) < n THEN bits \o Zeros(n - Len(bits)) ELSE SubSeq(bits, 1, n)
        rest == From(bits, n + 1)
        up == /\ rest # <<>>
              /\ rest[1] = 1
              /\ \/ \E i \in 2..Len(rest) : rest[i] = 1
                 \/ exact[n] = 1
        sum == AddBits(exact, Zeros(n - 1) \o <<1>>)
    IN  IF ~up THEN [m |-> exact, e |-> e]
        ELSE IF sum[1] = 1 THEN [m |-> SubSeq(sum, 1, n), e |-> e + 1]
        ELSE [m |-> Tail(sum), e |-> e]

\* n bits of the quotient r / d, highest first, for r < 2 * d, then a sticky pair:
\* the next bit and whether anything follows it
RECURSIVE QuotientBits(_, _, _)
QuotientBits(r, d, n) ==
    LET b == IF r >= d THEN 1 ELSE 0
        r2 == 2 * (r - b * d)
    IN  IF n = 0 THEN <<b, IF r2 > 0 THEN 1 ELSE 0>>
        ELSE <<b>> \o QuotientBits(r2, d, n - 1)

\* the least s with k * 2^s >= d
RECURSIVE ShiftToReach(_, _)
ShiftToReach(k, d) == IF k >= d THEN 0 ELSE 1 + ShiftToReach(2 * k, d)

RECURSIVE Pow2(_)
Pow2(n) == IF n = 0 THEN 1 ELSE 2 * Pow2(n - 1)

\* Python: k / d for ints 1 <= k, 1 <= d
TrueDiv(k, d) ==
    LET s == ShiftToReach(k, d)
        t == ShiftToReach(d, k + 1) - 1
    IN  IF k < d
        THEN RoundToFloat(QuotientBits(k * Pow2(s), d, SignificandBits), -s)
        ELSE RoundToFloat(QuotientBits(k, d * Pow2(IF t < 0 THEN 0 ELSE t), SignificandBits),
                          IF t < 0 THEN 0 ELSE t)

\* Python: x * 100 for a float x (100 = 64 + 32 + 4 is exact as a float)
TimesHundred(x) ==
    LET w == SignificandBits + 7
        a == PadTo(x.m \o Zeros(6), w)
        b == PadTo(x.m \o Zeros(5), w)
        c == PadTo(x.m \o Zeros(2), w + 1)
        p == StripZeros(AddBits(AddBits(a, b), c))
    IN  RoundToFloat(p, x.e + Len(p) - SignificandBits)

RECURSIVE BitsToNat(_)
BitsToNat(a) == IF a = <<>> THEN 0 ELSE 2 * BitsToNat(SubSeq(a, 1, Len(a) - 1)) + a[Len(a)]

\* Python: int(x) for a float 0 < x < 2^31
Trunc(x) == IF x.e < 0 THEN 0 ELSE BitsToNat(SubSeq(x.m, 1, x.e + 1))

\* line 92: int((index + 1) / total_files * 100), done = index + 1
Percent(done, total) == Trunc(TimesHundred(TrueDiv(done, total)))

(***************************************************************************)
(* State                                                                   *)
(***************************************************************************)

VARIABLES
    \* one call of the loop body of Worker.run on one line
    line, conf, new_line, rpc,
    \* the subtitle files, the Worker threads and what App shows of them
    fs, workers, events, progress_bar, log_area,
    \* the fields and widgets of App
    file_list, output_dir, recursive_checkbox, spacing_checkbox, table, fonts_config,
    \* how many operations the user and other processes have issued
    ops,
    \* fonts_config.json, fonts_config_backup.json, the last result of load_fonts_config
    disk, backup, loaded

rewriteVars == <<line, conf, new_line, rpc>>
workerVars == <<fs, workers, events, progress_bar, log_area>>
appVars == <<file_list, output_dir, recursive_checkbox, spacing_checkbox, table, fonts_config>>
diskVars == <<disk, backup, loaded>>
vars == <<rewriteVars, workerVars, appVars, diskVars, ops>>

(***************************************************************************)
(* Inputs of the line rewriting                                            *)
(***************************************************************************)

\* the longest generated line body, in tokens
MaxTok == 3

Tokens ==
    {<<",">>, <<" ">>, <<"A">>, <<"B">>, FnTag, FspTag, <<"1">>, <<".">>, <<"-">>,
     <<"}">>, <<"\\">>}

Prefixes ==
    {<<>>, StylePrefix, StylePrefix \o <<"A", ",">>, StylePrefix \o <<"B", ",", " ">>}

\* a line as readlines() returns it: the line feed, if any, is its last character
Terminators == {<<>>, <<"\n">>}

RECURSIVE TokenStrings(_)
TokenStrings(n) ==
    IF n = 0 THEN {<<>>}
    ELSE LET shorter == TokenStrings(n - 1)
         IN  shorter \cup {s \o t : s \in {x \in shorter : TRUE}, t \in Tokens}

\* readlines() returns no empty line
GenLines ==
    {p \o b \o t : p \in Prefixes, b \in TokenStrings(MaxTok), t \in Terminators}
        \ {<<>>}

GenConf(rs) ==
    [font_replacements |-> (<<"A">> :> <<"C", "C">>) @@ (<<"A", "B">> :> <<"B">>),
     default_font |-> <<"D">>,
     remove_spacing |-> rs]

ComicSansMS == <<"C", "o", "m", "i", "c", " ", "S", "a", "n", "s", " ", "M", "S">>
Arial == <<"A", "r", "i", "a", "l">>
Verdana == <<"V", "e", "r", "d", "a", "n", "a">>
Hello == <<"H", "e", "l", "l", "o">>

\* Style: Default,Comic Sans MS,20,...
ScenarioStyleLine ==
    StylePrefix \o <<"D", "e", "f", "a", "u", "l", "t", ",">> \o ComicSansMS
        \o <<",", "2", "0", ",", ".", ".", ".">>

\* {\fnComic Sans MS}Hello{\fnArial}
ScenarioDialogueLine ==
    <<"{">> \o FnTag \o ComicSansMS \o <<"}">> \o Hello \o <<"{">> \o FnTag \o Arial \o <<"}">>

\* Text\fsp2.5 more
ScenarioSpacingLine ==
    <<"T", "e", "x", "t">> \o FspTag \o <<"2", ".", "5", " ", "m", "o", "r", "e">>

ScenarioLines == {ScenarioStyleLine, ScenarioDialogueLine, ScenarioSpacingLine}

ScenarioConf(rs) ==
    [font_replacements |-> (ComicSansMS :> Arial),
     default_font |-> Verdana,
     remove_spacing |-> rs]

(***************************************************************************)
(* Idle values of the parts a specification does not use                   *)
(***************************************************************************)

RewriteIdle ==
    /\ line = <<>>
    /\ conf = GenConf(TRUE)
    /\ new_line = <<>>
    /\ rpc = "done"

WorkerIdle ==
    /\ fs = <<>>
    /\ workers = <<>>
    /\ events = <<>>
    /\ progress_bar = 0
    /\ log_area = <<>>

AppIdle ==
    /\ file_list = <<>>
    /\ output_dir = "None"
    /\ recursive_checkbox = FALSE
    /\ spacing_checkbox = TRUE
    /\ table = <<>>
    /\ fonts_config = <<>>
    /\ ops = 0

DiskIdle ==
    /\ disk = [state |-> "missing"]
    /\ backup = [state |-> "missing"]
    /\ loaded = [called |-> FALSE]

(***************************************************************************)
(* The line rewriting as a function of its inputs                          *)
(***************************************************************************)

RewriteInit ==
    /\ \E rs \in BOOLEAN :
          \/ line \in GenLines /\ conf = GenConf(rs)
          \/ line \in ScenarioLines /\ conf = ScenarioConf(rs)
    /\ new_line = <<>>
    /\ rpc = "line"
    /\ WorkerIdle /\ AppIdle /\ DiskIdle

\* lines 66-84 for one line
Rewrite ==
    /\ rpc = "line"
    /\ new_line' = RewriteLine(line, conf.font_replacements, conf.default_font,
                               conf.remove_spacing)
    /\ rpc' = "done"
    /\ UNCHANGED <<line, conf, workerVars, appVars, diskVars, ops>>

RewriteNext == Rewrite

SpecRewrite == RewriteInit /\ [][RewriteNext]_vars

(***************************************************************************)
(* Properties of the line rewriting                                        *)
(***************************************************************************)

\* out is s with the first textual occurrence of old replaced by new, and
\* nothing else changed
FirstOccurrenceReplaced(out, s, old, new) ==
    \E i \in 1..(Len(s) + 1) :
        /\ StartsAt(s, i, old)
        /\ \A j \in 1..(i - 1) : ~StartsAt(s, j, old)
        /\ Len(out) = Len(s) - Len(old) + Len(new)
        /\ \A k \in 1..(i - 1) : out[k] = s[k]
        /\ \A k \in 1..Len(new) : out[i - 1 + k] = new[k]
        /\ \A k \in (i + Len(old))..Len(s) : out[k - Len(old) + Len(new)] = s[k]

\* the trimmed second field of a style-definition line
StyleFont(s) == Strip(StyleMatch(s).font)

\* the style-definition lines whose font is a key of the mapping
MappedStyleLine(s) ==
    StyleMatch(s).ok /\ StyleFont(s) \in DOMAIN conf.font_replacements

\* Style: Default,Arial,20,...
ScenarioStyleOut ==
    StylePrefix \o <<"D", "e", "f", "a", "u", "l", "t", ",">> \o Arial
        \o <<",", "2", "0", ",", ".", ".", ".">>

\* C3 as stated: for a style-definition line whose trimmed second field is a key
\* of the mapping, whatever the spacing flag, the rewritten line is the input line
\* with the first occurrence of the font name replaced by its replacement and
\* nothing else changed.
C3_StyleLineDiffersOnlyInFont ==
    (rpc = "done" /\ MappedStyleLine(line))
        => FirstOccurrenceReplaced(new_line, line, StyleFont(line),
                                   conf.font_replacements[StyleFont(line)])

\* the input line without its \fsp markers, digit by digit: every character that is
\* not part of a marker, in order
RECURSIVE WithoutSpacingMarkers(_)
WithoutSpacingMarkers(s) ==
    IF s = <<>> THEN <<>>
    ELSE IF StartsAt(s, 1, FspTag)
         THEN WithoutSpacingMarkers(From(s, FspMatchEnd(s, 1)))
         ELSE <<Head(s)>> \o WithoutSpacingMarkers(Tail(s))

\* C3 amended: the font of a style-definition line is replaced at its first
\* occurrence and nothing else changes when the spacing flag is off or the line
\* holds no \fsp marker; when the flag is on, the \fsp markers are removed first and
\* the same holds of the line without them. The scenario line gives
\* Style: Default,Arial,20,...
C3_StyleLineAfterSpacing ==
    LET l == IF conf.remove_spacing THEN WithoutSpacingMarkers(line) ELSE line
    IN  /\ (rpc = "done" /\ MappedStyleLine(l))
            => FirstOccurrenceReplaced(new_line, l, StyleFont(l),
                                       conf.font_replacements[StyleFont(l)])
        /\ (rpc = "done" /\ line = ScenarioStyleLine /\ conf = ScenarioConf(conf.remove_spacing))
            => new_line = ScenarioStyleOut

\* a style-definition line with a mapped font and an \fsp marker has been rewritten
\* with the spacing flag on
C3_Witness ==
    /\ rpc = "done"
    /\ conf.remove_spacing
    /\ MappedStyleLine(line)
    /\ Contains(line, FspTag)
    /\ MappedStyleLine(WithoutSpacingMarkers(line))
    /\ new_line # line

\* {\fnArial}Hello{\fnArial}
ScenarioDialogueClaimed ==
    <<"{">> \o FnTag \o Arial \o <<"}">> \o Hello \o <<"{">> \o FnTag \o Arial \o <<"}">>

\* {\fnArial}Hello{\fnVerdana}
ScenarioDialogueOut ==
    <<"{">> \o FnTag \o Arial \o <<"}">> \o Hello \o <<"{">> \o FnTag \o Verdana \o <<"}">>

ScenarioDialogueDone ==
    /\ rpc = "done"
    /\ line = ScenarioDialogueLine
    /\ conf = ScenarioConf(conf.remove_spacing)

\* C4 as stated: {\fnComic Sans MS}Hello{\fnArial} with {Comic Sans MS -> Arial}
\* and default font Verdana is rewritten to {\fnArial}Hello{\fnArial}.
C4_ScenarioKeepsUnmappedFont == ScenarioDialogueDone => new_line = ScenarioDialogueClaimed

\* C4 amended: the line is rewritten to {\fnArial}Hello{\fnVerdana}: the second
\* marker, whose font Arial is not a key of the mapping, gets the default font.
C4_ScenarioUsesDefaultFont == ScenarioDialogueDone => new_line = ScenarioDialogueOut

\* the scenario line has been rewritten
C4_Witness == ScenarioDialogueDone /\ new_line # line

\* a line that is no style definition and holds no \fn
PlainLine(s) == ~StyleMatch(s).ok /\ ~Contains(s, FnTag)

\* C5 as stated: a line that does not match the style-definition shape and holds
\* no \fn is rewritten to itself, whatever the mapping, the default font and the
\* spacing flag.
C5_PlainLineUnchanged == (rpc = "done" /\ PlainLine(line)) => new_line = line

\* C5 amended: such a line is rewritten to itself when the spacing flag is off or
\* the line holds no \fsp marker.
C5_PlainLineUnchangedWithoutSpacing ==
    (rpc = "done" /\ PlainLine(line) /\ (~conf.remove_spacing \/ ~Contains(line, FspTag)))
        => new_line = line

\* a plain line holding an \fsp marker has been rewritten with the flag off
C5_Witness ==
    /\ rpc = "done"
    /\ PlainLine(line)
    /\ ~conf.remove_spacing
    /\ Contains(line, FspTag)
    /\ new_line = line

(***************************************************************************)
(* Worker: one QThread per batch                                           *)
(***************************************************************************)

\* a path is a directory and a base name; base names are numbered
Path(d, n) == [dir |-> d, name |-> n]
NoPath == Path("", 0)

\* os.path.join(output_dir, os.path.basename(ass_file_name))
OutputFileName(output_dir_, ass_file_name) == Path(output_dir_, ass_file_name.name)

\* file.readlines(): every line keeps its line feed; the last may have none
RECURSIVE ReadLines(_)
ReadLines(text) ==
    IF text = <<>> THEN <<>>
    ELSE LET i == FirstIndex(text, <<"\n">>)
         IN  IF i = 0 THEN <<text>>
             ELSE <<SubSeq(text, 1, i)>> \o ReadLines(From(text, i + 1))

\* output_file.writelines(new_lines)
RECURSIVE WriteLines(_)
WriteLines(lines) ==
    IF lines = <<>> THEN <<>> ELSE Head(lines) \o WriteLines(Tail(lines))

\* an exception: its type, the statement of run() that raised it, and the filename
\* attribute it carries (OSError has one)
NoExc == [type |-> "None", stage |-> "none", filename |-> NoPath]

\* what open(..., 'r', encoding='utf-8-sig') and readlines() raise; a decoding
\* error does not carry the file name
ReadErrors(path) ==
    {[type |-> "FileNotFoundError", stage |-> "read", filename |-> path],
     [type |-> "PermissionError", stage |-> "read", filename |-> path],
     [type |-> "UnicodeDecodeError", stage |-> "read", filename |-> NoPath]}

\* Worker.__init__, and start(): run() is at its first file
NewWorker(files, font_replacements, default_font, output_dir_, remove_spacing) ==
    [files |-> files,
     font_replacements |-> font_replacements,
     default_font |-> default_font,
     output_dir |-> output_dir_,
     remove_spacing |-> remove_spacing,
     index |-> 0,
     lines |-> <<>>,
     new_lines |-> <<>>,
     pc |-> IF files = <<>> THEN "finished" ELSE "read",
     exc |-> NoExc]

\* the file the loop of run() is at
CurrentFile(w) == workers[w].files[workers[w].index + 1]

\* lines 61-84: new_lines
RewriteLines(wk) ==
    [i \in 1..Len(wk.lines) |->
        RewriteLine(wk.lines[i], wk.font_replacements, wk.default_font, wk.remove_spacing)]

\* lines 58-59: the file is read
WorkerRead(w) ==
    /\ workers[w].pc = "read"
    /\ CurrentFile(w) \in DOMAIN fs
    /\ workers' = [workers EXCEPT ![w].lines = ReadLines(fs[CurrentFile(w)]),
                                  ![w].pc = "write"]
    /\ UNCHANGED <<fs, events, progress_bar, log_area, rewriteVars, appVars, diskVars, ops>>

\* lines 58-59 raise: nothing catches the exception, run() ends with it
WorkerReadFails(w) ==
    /\ workers[w].pc = "read"
    /\ \E x \in ReadErrors(CurrentFile(w)) :
          workers' = [workers EXCEPT ![w].exc = x, ![w].pc = "raised"]
    /\ UNCHANGED <<fs, events, progress_bar, log_area, rewriteVars, appVars, diskVars, ops>>

\* lines 61-89: the lines are rewritten and the output file is written
WorkerWrite(w) ==
    /\ workers[w].pc = "write"
    /\ LET out == RewriteLines(workers[w])
       IN  /\ fs' = (OutputFileName(workers[w].output_dir, CurrentFile(w))
                        :> WriteLines(out)) @@ fs
           /\ workers' = [workers EXCEPT ![w].new_lines = out, ![w].pc = "log"]
    /\ UNCHANGED <<events, progress_bar, log_area, rewriteVars, appVars, diskVars, ops>>

\* line 88 raises: the output file cannot be opened for writing
WorkerWriteFails(w) ==
    /\ workers[w].pc = "write"
    /\ workers' = [workers EXCEPT
                      ![w].exc = [type |-> "PermissionError", stage |-> "write",
                                  filename |-> OutputFileName(workers[w].output_dir,
                                                              CurrentFile(w))],
                      ![w].pc = "raised"]
    /\ UNCHANGED <<fs, events, progress_bar, log_area, rewriteVars, appVars, diskVars, ops>>

\* line 91: log_message is emitted; App.appendLog (lines 279-280) appends it to the
\* log area: the queued delivery of the signal is taken together with its emission
WorkerLog(w) ==
    /\ workers[w].pc = "log"
    /\ events' = Append(events, [src |-> w, sig |-> "log_message",
                                 arg |-> CurrentFile(w).name])
    /\ log_area' = Append(log_area, CurrentFile(w).name)
    /\ workers' = [workers EXCEPT ![w].pc = "progress"]
    /\ UNCHANGED <<fs, progress_bar, rewriteVars, appVars, diskVars, ops>>

\* line 92: progress is emitted; App.updateProgress (lines 276-277) sets the
\* progress bar, delivery taken together with the emission; the loop
\* goes to the next file or run() returns
WorkerProgress(w) ==
    /\ workers[w].pc = "progress"
    /\ LET done == workers[w].index + 1
           value == Percent(done, Len(workers[w].files))
       IN  /\ events' = Append(events, [src |-> w, sig |-> "progress", arg |-> value])
           /\ progress_bar' = value
           /\ workers' = [workers EXCEPT
                             ![w].index = done,
                             ![w].pc = IF done = Len(workers[w].files)
                                       THEN "finished" ELSE "read"]
    /\ UNCHANGED <<fs, log_area, rewriteVars, appVars, diskVars, ops>>

(***************************************************************************)
(* One batch of N files, and one batch of one file of a few lines          *)
(***************************************************************************)

\* the largest batch
MaxFiles == 50

\* the most lines of a file
MaxLines == 2

\* Style: A,A, and {\fnB}
BatchText ==
    StylePrefix \o <<"A", ",", "A", ",", "\n">> \o <<"{">> \o FnTag \o <<"B", "}", "\n">>

InputFiles(n) == [i \in 1..n |-> Path("in", i)]

BatchInit ==
    /\ \E n \in 1..MaxFiles :
          /\ fs = [p \in {Path("in", i) : i \in 1..n} |-> BatchText]
          /\ workers = <<NewWorker(InputFiles(n), GenConf(TRUE).font_replacements,
                                   GenConf(TRUE).default_font, "out", TRUE)>>
    /\ events = <<>>
    /\ progress_bar = 0
    /\ log_area = <<>>
    /\ RewriteIdle /\ AppIdle /\ DiskIdle

BatchNext ==
    \/ \E w \in DOMAIN workers : WorkerRead(w)
    \/ \E w \in DOMAIN workers : WorkerReadFails(w)
    \/ \E w \in DOMAIN workers : WorkerWrite(w)
    \/ \E w \in DOMAIN workers : WorkerWriteFails(w)
    \/ \E w \in DOMAIN workers : WorkerLog(w)
    \/ \E w \in DOMAIN workers : WorkerProgress(w)

SpecBatch == BatchInit /\ [][BatchNext]_vars

\* lines of a file: with or without an inline marker, closed or not
SampleLines ==
    {<<"A">>,
     <<"{">> \o FnTag \o <<"A", "}", "B">>,
     <<"{">> \o FnTag \o <<"A">>,
     FnTag \o <<"B", "\\", "A">>,
     <<"A">> \o FspTag \o <<"1">>,
     StylePrefix \o <<"B", ",", "A", ",">>,
     FnTag}

RECURSIVE FileTexts(_)
FileTexts(n) ==
    IF n = 0 THEN {<<>>}
    ELSE {l \o <<"\n">> \o t : l \in SampleLines, t \in FileTexts(n - 1)}
         \cup SampleLines \cup {<<>>}

FileInit ==
    /\ \E text \in FileTexts(MaxLines), rs \in BOOLEAN :
          /\ fs = (Path("in", 1) :> text)
          /\ workers = <<NewWorker(InputFiles(1), GenConf(rs).font_replacements,
                                   GenConf(rs).default_font, "out", rs)>>
    /\ events = <<>>
    /\ progress_bar = 0
    /\ log_area = <<>>
    /\ RewriteIdle /\ AppIdle /\ DiskIdle

SpecFile == FileInit /\ [][BatchNext]_vars

(***************************************************************************)
(* Properties of a batch                                                   *)
(***************************************************************************)

\* the signals worker w has emitted, in order
EventsOf(w) == SelectSeq(events, LAMBDA e : e.src = w)

\* the files of worker w whose output has been written
WrittenCount(w) ==
    workers[w].index + (IF workers[w].pc \in {"log", "progress"} THEN 1 ELSE 0)

OutputOf(w, k) == OutputFileName(workers[w].output_dir, workers[w].files[k])

\* the j-th signal of a batch: the log of file k, then the progress
\* floor(100 * k / N), for k = 1, 2, ...
ClaimedEvent(w, j) ==
    IF j % 2 = 1
    THEN [src |-> w, sig |-> "log_message", arg |-> workers[w].files[(j + 1) \div 2].name]
    ELSE [src |-> w, sig |-> "progress",
          arg |-> (100 * (j \div 2)) \div Len(workers[w].files)]

ProgressValues(w) ==
    LET ev == SelectSeq(EventsOf(w), LAMBDA e : e.sig = "progress")
    IN  [i \in 1..Len(ev) |-> ev[i].arg]

\* C1: in a batch of N >= 1 files without a failure, the files are taken in list
\* order; for the k-th file the output is written, then the log signal with its
\* base name is emitted, then the progress signal with floor(100 * k / N); the
\* progress values never decrease, lie in 0..100 and end with 100; a finished
\* batch has emitted N signals of each kind.
C1_BatchSignals ==
    \A w \in DOMAIN workers :
        LET wk == workers[w]
            n == Len(wk.files)
            ev == EventsOf(w)
            pv == ProgressValues(w)
        IN  wk.pc # "raised" =>
              /\ Len(ev) = 2 * wk.index + (IF wk.pc = "progress" THEN 1 ELSE 0)
              /\ \A j \in 1..Len(ev) : ev[j] = ClaimedEvent(w, j)
              /\ \A k \in 1..((Len(ev) + 1) \div 2) : OutputOf(w, k) \in DOMAIN fs
              /\ \A i \in 1..Len(pv) : pv[i] \in 0..100
              /\ \A i \in 2..Len(pv) : pv[i - 1] <= pv[i]
              /\ wk.pc = "finished" => (Len(ev) = 2 * n /\ Len(pv) = n /\ pv[n] = 100)

\* what remains of C1 with the value the code computes: the order, the counts, the
\* range, the monotonicity and the final 100
BatchSignalsAsComputed ==
    \A w \in DOMAIN workers :
        LET wk == workers[w]
            n == Len(wk.files)
            ev == EventsOf(w)
            pv == ProgressValues(w)
        IN  wk.pc # "raised" =>
              /\ Len(ev) = 2 * wk.index + (IF wk.pc = "progress" THEN 1 ELSE 0)
              /\ \A j \in 1..Len(ev) :
                    /\ ev[j].sig = ClaimedEvent(w, j).sig
                    /\ j % 2 = 1 => ev[j] = ClaimedEvent(w, j)
                    /\ j % 2 = 0 => ev[j].arg \in {ClaimedEvent(w, j).arg,
                                                   ClaimedEvent(w, j).arg - 1}
              /\ \A k \in 1..((Len(ev) + 1) \div 2) : OutputOf(w, k) \in DOMAIN fs
              /\ \A i \in 1..Len(pv) : pv[i] \in 0..100
              /\ \A i \in 2..Len(pv) : pv[i - 1] <= pv[i]
              /\ wk.pc = "finished" => (Len(ev) = 2 * n /\ Len(pv) = n /\ pv[n] = 100)

\* the caller has been sent a failure of worker w that names path
FailureSurfaced(w, path) ==
    \E i \in 1..Len(events) :
        /\ events[i].src = w
        /\ events[i].sig \notin {"log_message", "progress"}
        /\ events[i].arg = path.name

\* the output worker w writes for its k-th file
ExpectedOutput(w, k) ==
    LET wk == workers[w]
    IN  WriteLines(RewriteLines([wk EXCEPT !.lines = ReadLines(fs[wk.files[k]])]))

\* a failed read stops the batch where it is: nothing is written, logged or
\* reported for the file or a later one, and the earlier outputs are in place
ReadFailureStopsBatch ==
    \A w \in DOMAIN workers :
        LET wk == workers[w]
            k == wk.index + 1
        IN  (wk.pc = "raised" /\ wk.exc.stage = "read") =>
              /\ Len(EventsOf(w)) = 2 * (k - 1)
              /\ \A j \in k..Len(wk.files) : OutputOf(w, j) \notin DOMAIN fs
              /\ \A j \in 1..(k - 1) :
                    OutputOf(w, j) \in DOMAIN fs /\ fs[OutputOf(w, j)] = ExpectedOutput(w, j)

\* C2: when reading the k-th file fails, the batch stops at that file (no output,
\* log or progress for it or a later file, the earlier outputs unchanged), and the
\* run ends in a failure that is surfaced to the caller and identifies the path of
\* the file.
C2_ReadFailureReported ==
    /\ ReadFailureStopsBatch
    /\ \A w \in DOMAIN workers :
          (workers[w].pc = "raised" /\ workers[w].exc.stage = "read") =>
              /\ workers[w].exc.filename = CurrentFile(w)
              /\ FailureSurfaced(w, CurrentFile(w))

EndsWithLineFeed(l) == l # <<>> /\ l[Len(l)] = "\n"

\* C6: the written output has as many lines as the input file: every input line
\* gives one output line, which keeps its line terminator.
C6_LineCountKept ==
    \A w \in DOMAIN workers :
        /\ \A k \in 1..WrittenCount(w) :
              Len(ReadLines(fs[OutputOf(w, k)])) = Len(ReadLines(fs[workers[w].files[k]]))
        /\ workers[w].pc = "log" =>
              /\ Len(workers[w].new_lines) = Len(workers[w].lines)
              /\ \A i \in 1..Len(workers[w].lines) :
                    EndsWithLineFeed(workers[w].lines[i])
                        => EndsWithLineFeed(workers[w].new_lines[i])

(***************************************************************************)
(* fonts_config.json and load_fonts_config                                 *)
(***************************************************************************)

DefaultKey == <<"D", "e", "f", "a", "u", "l", "t">>

Entry(before, after) == [fontBefore |-> before, fontAfter |-> after]

\* a JSON value: a list of entries, an object with some of the keys "fonts" and
\* "removeFontSpacing", or a scalar (null, false, 0, "" are falsy)
JList(items) ==
    [kind |-> "list", keys |-> {}, fonts |-> items, removeFontSpacing |-> TRUE]
JObject(keys, fonts, spacing) ==
    [kind |-> "object", keys |-> keys,
     fonts |-> IF "fonts" \in keys THEN fonts ELSE <<>>,
     removeFontSpacing |-> IF "removeFontSpacing" \in keys THEN spacing ELSE TRUE]
JNull == [kind |-> "null", keys |-> {}, fonts |-> <<>>, removeFontSpacing |-> TRUE]

ConfigKeys == {"fonts", "removeFontSpacing"}

\* lines 14-22
default_config == JObject(ConfigKeys, <<Entry(DefaultKey, Arial)>>, TRUE)

\* Python: not value
Falsy(v) ==
    \/ v.kind = "null"
    \/ v.kind = "list" /\ v.fonts = <<>>
    \/ v.kind = "object" /\ v.keys = {}

\* a file: missing, not decodable as text, zero-length, text that is no JSON, or
\* the text json.dump writes for a value
File(state, value) == [state |-> state, value |-> value]
Missing == File("missing", JNull)
Undecodable == File("undecodable", JNull)
ZeroLength == File("zero_length", JNull)
Garbage == File("garbage", JNull)
JsonFile(v) == File("json", v)

\* lines 24-41: the value returned or the exception raised, and the two files after
\* the call
LoadFontsConfig(d, b) ==
    IF d.state = "missing"
    THEN \* lines 26-29
         [ret |-> default_config, raised |-> "None", disk |-> JsonFile(default_config),
          backup |-> b]
    ELSE IF d.state = "undecodable"
    THEN \* line 31: read() raises UnicodeDecodeError, a ValueError that line 37
         \* does not catch
         [ret |-> JNull, raised |-> "UnicodeDecodeError", disk |-> d, backup |-> b]
    ELSE IF d.state \in {"zero_length", "garbage"}
    THEN \* line 31 raises JSONDecodeError: lines 37-41
         [ret |-> default_config, raised |-> "None", disk |-> JsonFile(default_config),
          backup |-> d]
    ELSE IF Falsy(d.value)
    THEN \* lines 32-35
         [ret |-> default_config, raised |-> "None", disk |-> JsonFile(default_config),
          backup |-> b]
    ELSE \* line 36
         [ret |-> d.value, raised |-> "None", disk |-> d, backup |-> b]

\* the most entries of a persisted font list
MaxEntries == 2

EntryChoices ==
    {Entry(DefaultKey, Arial), Entry(<<"A">>, <<"B">>), Entry(<<"A">>, <<"C", "C">>)}

RECURSIVE EntryLists(_)
EntryLists(n) ==
    IF n = 0 THEN {<<>>}
    ELSE EntryLists(n - 1) \cup {Append(l, e) : l \in EntryLists(n - 1), e \in EntryChoices}

JsonValues ==
    {JNull}
      \cup {JList(l) : l \in EntryLists(MaxEntries)}
      \cup {JObject(k, l, b) : k \in SUBSET ConfigKeys, l \in EntryLists(MaxEntries),
                               b \in BOOLEAN}

DiskStates ==
    {Missing, Undecodable, ZeroLength, Garbage} \cup {JsonFile(v) : v \in JsonValues}

NotCalled == [called |-> FALSE, ret |-> JNull, raised |-> "None", before |-> Missing]

ConfigInit ==
    /\ disk \in DiskStates
    /\ backup \in {Missing, JsonFile(default_config)}
    /\ loaded = NotCalled
    /\ RewriteIdle /\ WorkerIdle /\ AppIdle

\* one call of load_fonts_config()
CallLoadFontsConfig ==
    /\ ~loaded.called
    /\ LET r == LoadFontsConfig(disk, backup)
       IN  /\ disk' = r.disk
           /\ backup' = r.backup
           /\ loaded' = [called |-> TRUE, ret |-> r.ret, raised |-> r.raised,
                         before |-> disk]
    /\ UNCHANGED <<rewriteVars, workerVars, appVars, ops>>

ConfigNext == CallLoadFontsConfig

SpecConfig == ConfigInit /\ [][ConfigNext]_vars

\* the file was there and was no valid JSON, or was empty
CorruptOrEmpty(f) ==
    \/ f.state \in {"undecodable", "zero_length", "garbage"}
    \/ f.state = "json" /\ Falsy(f.value)

\* C8: whatever the persisted configuration was, load_fonts_config returns a
\* configuration without raising and leaves a valid non-empty configuration on disk;
\* when it overwrites a file that was no valid JSON or was empty, the previous content
\* is kept under the backup name and the file holds the default configuration.
C8_LoadRecovers ==
    loaded.called =>
        /\ loaded.raised = "None"
        /\ ~Falsy(loaded.ret)
        /\ disk.state = "json" /\ ~Falsy(disk.value)
        /\ CorruptOrEmpty(loaded.before) =>
              (backup = loaded.before /\ disk = JsonFile(default_config)
                  /\ loaded.ret = default_config)

\* what holds of the code: a file that decodes as text is recovered without raising;
\* the backup is taken when the text is no JSON, and not when it is an empty value
LoadRecoversDecodableText ==
    (loaded.called /\ loaded.before.state # "undecodable") =>
        /\ loaded.raised = "None"
        /\ ~Falsy(loaded.ret)
        /\ disk.state = "json" /\ ~Falsy(disk.value)
        /\ loaded.before.state \in {"zero_length", "garbage"} =>
              (backup = loaded.before /\ disk = JsonFile(default_config))

(***************************************************************************)
(* App: the control path                                                   *)
(***************************************************************************)

\* a table cell without an item: table.item(row, col) is None
NoItem == <<"None">>

\* Python: {entry["fontBefore"]: entry["fontAfter"] for entry in fonts}: a later
\* entry of a key replaces an earlier one
MappingOf(fonts) ==
    [k \in {fonts[i].fontBefore : i \in DOMAIN fonts} |->
        fonts[CHOOSE i \in DOMAIN fonts :
                /\ fonts[i].fontBefore = k
                /\ \A j \in DOMAIN fonts : fonts[j].fontBefore = k => j <= i].fontAfter]

\* lines 177-200: App.loadConfig over load_fonts_config's result r
LoadedConfig(r) ==
    IF r.ret.kind = "list" THEN JObject(ConfigKeys, r.ret.fonts, TRUE) ELSE r.ret

\* the directories the dialogs offer, and the one made when none is chosen
\* (output_<timestamp>; the operations of a run fall within one second)
DialogDirs == {"d1", "d1/s", "d2"}
Cancelled == ""
AutoDir == "output_ts"

\* os.walk: the directories under a directory
Children(d) == IF d = "d1" THEN <<"d1/s">> ELSE <<>>

\* base names from 100 on do not end in .ass
IsAss(name) == name < 100

\* the .ass files of one directory, in listing order
RECURSIVE InOrder(_)
InOrder(S) ==
    IF S = {} THEN <<>>
    ELSE LET p == CHOOSE x \in S : \A y \in S : x.name <= y.name
         IN  <<p>> \o InOrder(S \ {p})

AssFilesIn(d) == InOrder({p \in DOMAIN fs : p.dir = d /\ IsAss(p.name)})

\* lines 240-248: App.collectFiles
RECURSIVE Walk(_, _)
Walk(dirs, recursive) ==
    IF dirs = <<>> THEN <<>>
    ELSE AssFilesIn(Head(dirs))
            \o (IF recursive THEN Walk(Children(Head(dirs)) \o Tail(dirs), recursive)
                ELSE <<>>)

CollectFiles(directory) == Walk(<<directory>>, recursive_checkbox)

\* {\fnA}x\fsp1
SubtitleText ==
    <<"{">> \o FnTag \o <<"A", "}", "x">> \o FspTag \o <<"1", "\n">>

\* the most Worker threads started in one run of the application
MaxWorkers == 2

\* the most rows of the table
MaxRows == 2

TableEntries == {Entry(DefaultKey, <<"B">>), Entry(<<"A">>, <<"B">>)}

\* fonts_config.json as another process may leave it
ExternalContents ==
    {Garbage, Undecodable,
     JsonFile(JList(<<Entry(<<"A">>, <<"C", "C">>)>>)),
     JsonFile(JObject(ConfigKeys, <<Entry(<<"A">>, <<"B">>)>>, FALSE)),
     JsonFile(JObject({"removeFontSpacing"}, <<>>, FALSE))}

\* App.__init__: initUI, loadConfig, output_dir = None; no file_list yet (line 251
\* treats a missing and an empty file_list alike)
AppInit ==
    /\ \E d \in {Missing, JsonFile(JList(<<Entry(<<"A">>, <<"B">>)>>))} :
          LET r == LoadFontsConfig(d, Missing)
          IN  /\ disk = r.disk
              /\ backup = r.backup
              /\ fonts_config = LoadedConfig(r)
              /\ spacing_checkbox = LoadedConfig(r).removeFontSpacing
              /\ table = LoadedConfig(r).fonts
    /\ loaded = NotCalled
    /\ ops = 0
    /\ file_list = <<>>
    /\ output_dir = "None"
    /\ recursive_checkbox = FALSE
    /\ fs = (Path("d1", 1) :> SubtitleText) @@ (Path("d1", 100) :> SubtitleText)
                @@ (Path("d1/s", 1) :> SubtitleText)
    /\ workers = <<>>
    /\ events = <<>>
    /\ progress_bar = 0
    /\ log_area = <<>>
    /\ RewriteIdle

\* the longest sequence of operations issued to the application
MaxOps == 4

\* one more operation is issued
Issue == ops < MaxOps /\ ops' = ops + 1

\* the user ticks or unticks Recursive Search
ToggleRecursive ==
    /\ Issue
    /\ recursive_checkbox' = ~recursive_checkbox
    /\ UNCHANGED <<file_list, output_dir, spacing_checkbox, table, fonts_config,
                   rewriteVars, workerVars, diskVars>>

\* the user ticks or unticks Remove Font Spacing
ToggleSpacing ==
    /\ Issue
    /\ spacing_checkbox' = ~spacing_checkbox
    /\ UNCHANGED <<file_list, output_dir, recursive_checkbox, table, fonts_config,
                   rewriteVars, workerVars, diskVars>>

\* the user types a row of the table
EditRow ==
    /\ Issue
    /\ \E r \in DOMAIN table, e \in TableEntries :
          /\ table[r] # e
          /\ table' = [table EXCEPT ![r] = e]
    /\ UNCHANGED <<file_list, output_dir, recursive_checkbox, spacing_checkbox,
                   fonts_config, rewriteVars, workerVars, diskVars>>

\* lines 295-297: App.addRow: a row without items
AddRow ==
    /\ Issue
    /\ Len(table) < MaxRows
    /\ table' = Append(table, Entry(NoItem, NoItem))
    /\ UNCHANGED <<file_list, output_dir, recursive_checkbox, spacing_checkbox,
                   fonts_config, rewriteVars, workerVars, diskVars>>

\* lines 299-302: App.removeRow with one row selected
RemoveRow ==
    /\ Issue
    /\ \E r \in DOMAIN table :
          table' = SubSeq(table, 1, r - 1) \o SubSeq(table, r + 1, Len(table))
    /\ UNCHANGED <<file_list, output_dir, recursive_checkbox, spacing_checkbox,
                   fonts_config, rewriteVars, workerVars, diskVars>>

\* lines 202-220: App.saveConfig; a cell without an item raises at line 207 or 208,
\* before the file is opened
SaveConfig ==
    /\ Issue
    /\ \A r \in DOMAIN table : table[r].fontBefore # NoItem /\ table[r].fontAfter # NoItem
    /\ LET new_config == JObject(ConfigKeys, table, spacing_checkbox)
       IN  /\ disk' = JsonFile(new_config)
           /\ fonts_config' = new_config
    /\ UNCHANGED <<file_list, output_dir, recursive_checkbox, spacing_checkbox, table,
                   backup, loaded, rewriteVars, workerVars>>

\* another process rewrites fonts_config.json
ExternalEdit ==
    /\ Issue
    /\ \E c \in ExternalContents : disk # c /\ disk' = c
    /\ UNCHANGED <<backup, loaded, rewriteVars, workerVars, appVars>>

\* lines 222-229: App.showDialog
ShowDialog ==
    /\ Issue
    /\ \E directory \in DialogDirs \cup {Cancelled} :
          file_list' = IF directory # Cancelled THEN CollectFiles(directory) ELSE file_list
    /\ UNCHANGED <<output_dir, recursive_checkbox, spacing_checkbox, table, fonts_config,
                   rewriteVars, workerVars, diskVars>>

\* lines 231-238: the directory App.selectOutputDirectory stores for a dialog result
SelectedOutput(choice) == IF choice = Cancelled THEN AutoDir ELSE choice

\* lines 231-238: App.selectOutputDirectory
SelectOutputDirectory ==
    /\ Issue
    /\ \E choice \in DialogDirs \cup {Cancelled} : output_dir' = SelectedOutput(choice)
    /\ UNCHANGED <<file_list, recursive_checkbox, spacing_checkbox, table, fonts_config,
                   rewriteVars, workerVars, diskVars>>

\* lines 258-263: the fonts of the loaded value; "fonts" of an object without the key
\* raises KeyError
HasFonts(v) == v.kind = "list" \/ (v.kind = "object" /\ "fonts" \in v.keys)

\* line 266: remove_spacing
SpacingForBatch(v, checkbox) == checkbox

\* lines 250-274: App.startProcessing
StartProcessing ==
    /\ Issue
    /\ Len(workers) < MaxWorkers
    /\ \E choice \in DialogDirs \cup {Cancelled} :
          LET od == IF output_dir = "None" THEN SelectedOutput(choice) ELSE output_dir
              r == LoadFontsConfig(disk, backup)
              font_replacements == MappingOf(r.ret.fonts)
              default_font == Get(font_replacements, DefaultKey, Arial)
          IN  IF file_list = <<>>
              THEN \* lines 251-253
                   UNCHANGED <<output_dir, disk, backup, workers, progress_bar, log_area>>
              ELSE /\ output_dir' = od
                   /\ IF r.raised # "None"
                      THEN UNCHANGED <<disk, backup, workers, progress_bar, log_area>>
                      ELSE /\ disk' = r.disk
                           /\ backup' = r.backup
                           /\ IF ~HasFonts(r.ret)
                              THEN UNCHANGED <<workers, progress_bar, log_area>>
                              ELSE /\ progress_bar' = 0
                                   /\ log_area' = <<>>
                                   /\ workers' = Append(workers,
                                         NewWorker(file_list, font_replacements,
                                                   default_font, od,
                                                   SpacingForBatch(r.ret, spacing_checkbox)))
    /\ UNCHANGED <<file_list, recursive_checkbox, spacing_checkbox, table, fonts_config,
                   loaded, fs, events, rewriteVars>>

AppNext ==
    \/ ToggleRecursive
    \/ ToggleSpacing
    \/ EditRow
    \/ AddRow
    \/ RemoveRow
    \/ SaveConfig
    \/ ExternalEdit
    \/ ShowDialog
    \/ SelectOutputDirectory
    \/ StartProcessing
    \/ \E w \in DOMAIN workers : WorkerRead(w)
    \/ \E w \in DOMAIN workers : WorkerReadFails(w)
    \/ \E w \in DOMAIN workers : WorkerWrite(w)
    \/ \E w \in DOMAIN workers : WorkerWriteFails(w)
    \/ \E w \in DOMAIN workers : WorkerLog(w)
    \/ \E w \in DOMAIN workers : WorkerProgress(w)

SpecApp == AppInit /\ [][AppNext]_vars

(***************************************************************************)
(* Properties of the control path                                          *)
(***************************************************************************)

\* C7: no batch writes to the path of one of its own input files: the output
\* directory of a started batch differs from the directory of every input file.
C7_NeverInPlace ==
    \A w \in DOMAIN workers :
        \A k \in 1..Len(workers[w].files) :
            /\ workers[w].output_dir # workers[w].files[k].dir
            /\ OutputOf(w, k) # workers[w].files[k]

\* the Config a persisted value stands for: a legacy list has the spacing flag on
PersistedConfig(f) ==
    IF f.value.kind = "list" THEN JObject(ConfigKeys, f.value.fonts, TRUE) ELSE f.value

Settings(wk) == <<wk.font_replacements, wk.default_font, wk.remove_spacing>>

\* C9: a batch applies the mapping, the default font and the spacing flag of the
\* Config that is on disk when the batch starts, whatever the unsaved state of the
\* table and of the checkbox, and nothing done while it runs changes them.
C9_BatchUsesPersistedConfig ==
    [][/\ Len(workers') = Len(workers) + 1 =>
            LET wk == workers'[Len(workers')]
                cfg == PersistedConfig(disk')
            IN  /\ wk.font_replacements = MappingOf(cfg.fonts)
                /\ wk.default_font = Get(MappingOf(cfg.fonts), DefaultKey, Arial)
                /\ wk.remove_spacing = cfg.removeFontSpacing
       /\ \A w \in DOMAIN workers : Settings(workers'[w]) = Settings(workers[w])]_vars

\* what holds of the code: the mapping and the default font are those on disk at the
\* start, and the settings of a running batch never change
BatchUsesPersistedFonts ==
    [][/\ Len(workers') = Len(workers) + 1 =>
            LET wk == workers'[Len(workers')]
                cfg == PersistedConfig(disk')
            IN  /\ wk.font_replacements = MappingOf(cfg.fonts)
                /\ wk.default_font = Get(MappingOf(cfg.fonts), DefaultKey, Arial)
       /\ \A w \in DOMAIN workers : Settings(workers'[w]) = Settings(workers[w])]_vars

Running(w) == workers[w].pc \notin {"finished", "raised"}

\* C10: at most one Worker runs at a time, and the signals the caller receives are
\* those of one batch after the other, never an interleaving of two.
C10_OneWorkerAtATime ==
    /\ Cardinality({w \in DOMAIN workers : Running(w)}) <= 1
    /\ \A i, j, k \in 1..Len(events) :
          (i < j /\ j < k /\ events[i].src = events[k].src)
              => events[j].src = events[i].src

====
